---- MODULE Spec2Model ----
(***************************************************************************)
(* localize-cli (src/main.rs): batch translation of nested JSON locale     *)
(* documents.  A String that is used as a key is a sequence of characters, *)
(* so that splitting and joining on '.' are computed; a leaf text is an    *)
(* atomic string.  A serde_json Value is a record tagged by `kind`; a Map  *)
(* or BTreeMap is a function from its keys.                                *)
(***************************************************************************)
EXTENDS Integers, Sequences, FiniteSets, TLC

(***************************************************************************)
(* Strings, ordered maps                                                   *)
(***************************************************************************)

\* the byte of a character, which orders String keys in a BTreeMap
Byte(c) ==
    CASE c = "." -> 46
      [] c = "a" -> 97
      [] c = "b" -> 98
      [] c = "d" -> 100
      [] c = "n" -> 110

\* k1 < k2 for Strings (lexicographic on bytes)
RECURSIVE KeyLess(_, _)
KeyLess(k1, k2) ==
    IF k1 = <<>> THEN k2 # <<>>
    ELSE IF k2 = <<>> THEN FALSE
    ELSE IF Byte(Head(k1)) # Byte(Head(k2)) THEN Byte(Head(k1)) < Byte(Head(k2))
    ELSE KeyLess(Tail(k1), Tail(k2))

\* the keys of a BTreeMap in iteration order
RECURSIVE SortedKeys(_)
SortedKeys(S) ==
    IF S = {} THEN <<>>
    ELSE LET least == CHOOSE k \in S : \A o \in S \ {k} : KeyLess(k, o)
         IN  <<least>> \o SortedKeys(S \ {least})

EmptyMap == <<>>

\* map.insert(k, v): binds k, replacing an earlier binding
MapInsert(map, k, v) ==
    [x \in DOMAIN map \cup {k} |-> IF x = k THEN v ELSE map[x]]

\* key.split('.')
RECURSIVE split(_)
split(key) ==
    IF \A i \in 1..Len(key) : key[i] # "." THEN <<key>>
    ELSE LET dot == CHOOSE i \in 1..Len(key) :
                        /\ key[i] = "."
                        /\ \A j \in 1..(i - 1) : key[j] # "."
         IN  <<SubSeq(key, 1, dot - 1)>> \o split(SubSeq(key, dot + 1, Len(key)))

(***************************************************************************)
(* serde_json::Value                                                       *)
(***************************************************************************)

ValueString(s) == [kind |-> "String", s |-> s]
ValueObject(m) == [kind |-> "Object", m |-> m]
ValueNumber == [kind |-> "Number"]
ValueNull == [kind |-> "Null"]
ValueBool == [kind |-> "Bool"]
ValueArray(items) == [kind |-> "Array", items |-> items]

\* the unwinding of a panic: Option::unwrap() on None
PANIC == [kind |-> "Panic"]

(***************************************************************************)
(* flatten_json                                                            *)
(***************************************************************************)

\* the prefix of a child of the object at `prefix`
new_prefix(prefix, k) ==
    IF prefix = <<>> THEN k ELSE prefix \o <<".">> \o k

RECURSIVE flatten_json(_, _, _)
RECURSIVE flatten_entries(_, _, _, _)

\* the loop `for (k, v) in obj` of flatten_json, over the keys left
flatten_entries(obj, keys, prefix, map) ==
    IF keys = <<>> THEN map
    ELSE flatten_entries(obj, Tail(keys), prefix,
             flatten_json(obj[Head(keys)], new_prefix(prefix, Head(keys)), map))

\* flatten_json with an entry for every leaf, whatever its kind
flatten_json_every_leaf(value, prefix, map) ==
    CASE value.kind = "Object" ->
             flatten_entries(value.m, SortedKeys(DOMAIN value.m), prefix, map)
      [] value.kind = "String" -> MapInsert(map, prefix, value.s)
      [] OTHER -> MapInsert(map, prefix, value.kind)

flatten_json(value, prefix, map) ==
    CASE value.kind = "Object" ->
             flatten_entries(value.m, SortedKeys(DOMAIN value.m), prefix, map)
      [] value.kind = "String" -> MapInsert(map, prefix, value.s)
      [] OTHER -> map

(***************************************************************************)
(* unflatten_json                                                          *)
(***************************************************************************)

\* an Option<&mut Map>: Some(m), or the None that unwrap() panics on
Some(m) == [some |-> TRUE, m |-> m]
None == [some |-> FALSE]

\* entry(part).or_insert_with(..).as_object_mut()
as_object_mut(current, part) ==
    IF part \notin DOMAIN current THEN Some(EmptyMap)
    ELSE IF current[part].kind = "Object" THEN Some(current[part].m)
    ELSE None

\* the inner loop of unflatten_json from segment i on: Some of the rebuilt
\* content of `current`, or None when unwrap() panics
RECURSIVE insert_parts(_, _, _, _)
insert_parts(current, parts, i, val) ==
    IF i = Len(parts)
    THEN Some(MapInsert(current, parts[i], ValueString(val)))
    ELSE LET entry == as_object_mut(current, parts[i])
         IN  IF ~entry.some THEN None
             ELSE LET child == insert_parts(entry.m, parts, i + 1, val)
                  IN  IF ~child.some THEN None
                      ELSE Some(MapInsert(current, parts[i], ValueObject(child.m)))

\* the outer loop `for (key, val) in flat`, over the keys left
RECURSIVE unflatten_entries(_, _, _)
unflatten_entries(flat, keys, root) ==
    IF keys = <<>> THEN Some(root)
    ELSE LET next == insert_parts(root, split(Head(keys)), 1, flat[Head(keys)])
         IN  IF ~next.some THEN None
             ELSE unflatten_entries(flat, Tail(keys), next.m)

\* the rebuilt tree, or PANIC
unflatten_json(flat) ==
    LET root == unflatten_entries(flat, SortedKeys(DOMAIN flat), EmptyMap)
    IN  IF root.some THEN ValueObject(root.m) ELSE PANIC

(***************************************************************************)
(* serde_json::to_string_pretty: the text as a sequence of tokens, the     *)
(* entries of an object in the iteration order of its Map                  *)
(***************************************************************************)

Punct(p) == [tok |-> "punct", p |-> p]

RECURSIVE to_string_pretty(_)
RECURSIVE pretty_entries(_, _)

pretty_entries(m, keys) ==
    IF keys = <<>> THEN <<>>
    ELSE <<[tok |-> "key", k |-> Head(keys)]>>
             \o to_string_pretty(m[Head(keys)])
             \o (IF Len(keys) > 1 THEN <<Punct(",")>> ELSE <<>>)
             \o pretty_entries(m, Tail(keys))

to_string_pretty(value) ==
    CASE value.kind = "Object" ->
             <<Punct("{")>> \o pretty_entries(value.m, SortedKeys(DOMAIN value.m))
                           \o <<Punct("}")>>
      [] value.kind = "String" -> <<[tok |-> "string", s |-> value.s]>>
      [] OTHER -> <<[tok |-> "literal", kind |-> value.kind]>>

(***************************************************************************)
(* The run: configuration and inputs                                       *)
(***************************************************************************)

\* the largest pool size --concurrency is drawn from
MaxConcurrency == 2

\* --langs, split on ','
target_langs == <<"de", "id">>

Langs == {target_langs[i] : i \in 1..Len(target_langs)}

\* the documents find_json_files discovers, by path relative to --source
Files == {"home.json", "menu.json"}

\* the leaf texts of the documents
Texts == {"Hello", "World"}

\* what the backend answers in translatedText, when it answers
Dictionary ==
    [de |-> [Hello |-> "Hallo", World |-> "Welt"],
     id |-> [Hello |-> "Halo", World |-> "Dunia"]]

\* {"a":{"b":"Hello","n":"Hello"},"d":"World"}
Greeting ==
    [readable |-> TRUE,
     json |-> ValueObject(
         <<"a">> :> ValueObject(<<"b">> :> ValueString("Hello")
                                @@ <<"n">> :> ValueString("Hello"))
         @@ <<"d">> :> ValueString("World"))]

\* a file that cannot be read, or whose content is not JSON
Unreadable == [readable |-> FALSE, json |-> ValueNull]

\* {"a":"Hello","a.b":"World"}
Collision ==
    [readable |-> TRUE,
     json |-> ValueObject(<<"a">> :> ValueString("Hello")
                          @@ <<"a", ".", "b">> :> ValueString("World"))]

\* {"a":"Hello","b":["World"],"d":{"a":null,"b":true},"n":1}
Counted ==
    [readable |-> TRUE,
     json |-> ValueObject(
         <<"a">> :> ValueString("Hello")
         @@ <<"b">> :> ValueArray(<<ValueString("World")>>)
         @@ <<"d">> :> ValueObject(<<"a">> :> ValueNull @@ <<"b">> :> ValueBool)
         @@ <<"n">> :> ValueNumber)]

\* {".a":"World"}
Dotted ==
    [readable |-> TRUE,
     json |-> ValueObject(<<".", "a">> :> ValueString("World"))]

Samples == {Greeting, Unreadable, Collision, Counted, Dotted}

\* the inputs of a run: any sample as home.json, next to a menu.json that is
\* a small document or is unreadable
Inputs ==
    {[d \in Files |-> IF d = "home.json" THEN home ELSE menu] :
        home \in Samples, menu \in {Counted, Unreadable}}

\* the content read_to_string(..).unwrap_or_default() gives for a missing file
NoContent == <<>>

\* marks a (language, text) the backend gave no translatedText for
NoTranslation == "<none>"

VARIABLES
    concurrency,    \* args.concurrency, the pool size N
    files,          \* the content of each discovered document
    semaphore,      \* the permits available
    pc,             \* where each document task stands
    flat_map,       \* translate_file: flat_map of each document
    lang_idx,       \* translate_file: position of the running `for &lang`
    futures,        \* translate_file: the fetch tasks of the running cycle
    text_map,       \* translate_file: text_map of the running cycle
    translations,   \* translate_file: translations of each document
    fs,             \* the content at each output path
    stderr,         \* the errors main reported: (document, failed call)
    crashed,        \* a panic unwound main
    finished,       \* main returned Ok
    run,            \* which run of the program this is
    memo,           \* the backend's answer for each (language, text), if fixed
    calls,          \* history: backend calls made, per document
    answers,        \* history: what the backend answered, per document
    outputs,        \* history: the tree rebuilt for each output of this run
    writes,         \* history: the outputs fs::write wrote in this run
    all_failed,     \* history: no backend call of this run gave a translation
    settled,        \* history: the outputs the previous run wrote or kept
    rt              \* the round-trip check of flatten_json / unflatten_json

vars == <<concurrency, files, semaphore, pc, flat_map, lang_idx, futures,
          text_map, translations, fs, stderr, crashed, finished, run, memo,
          calls, answers, outputs, writes, all_failed, settled, rt>>

\* everything a run starts from, but the file system and the backend
StartOfRun ==
    /\ semaphore = concurrency
    /\ pc = [d \in Files |-> "start"]
    /\ flat_map = [d \in Files |-> EmptyMap]
    /\ lang_idx = [d \in Files |-> 1]
    /\ futures = [d \in Files |-> EmptyMap]
    /\ text_map = [d \in Files |-> EmptyMap]
    /\ translations = [d \in Files |-> EmptyMap]
    /\ stderr = {}
    /\ crashed = FALSE
    /\ finished = FALSE
    /\ calls = [d \in Files |-> EmptyMap]
    /\ answers = [d \in Files |-> EmptyMap]
    /\ outputs = [d \in Files |-> EmptyMap]
    /\ writes = {}
    /\ all_failed = TRUE

\* the output of a document that was copied from the source by hand
SourceCopy(doc) ==
    IF doc.readable /\ unflatten_json(flatten_json(doc.json, <<>>, EmptyMap)) # PANIC
    THEN to_string_pretty(unflatten_json(flatten_json(doc.json, <<>>, EmptyMap)))
    ELSE NoContent

Init ==
    /\ concurrency \in 1..MaxConcurrency
    /\ files \in Inputs
    /\ StartOfRun
    /\ \E seeded \in BOOLEAN :
           fs = [d \in Files |-> [l \in Langs |->
                    IF seeded THEN SourceCopy(files[d]) ELSE NoContent]]
    /\ run = 1
    /\ memo = [l \in Langs |-> [t \in Texts |-> "any"]]
    /\ settled = {}
    /\ rt = [stage |-> "off"]

(***************************************************************************)
(* translate_file                                                          *)
(***************************************************************************)

\* unique_texts: the distinct values of the flat mapping
unique_texts(flat) == {flat[k] : k \in DOMAIN flat}

\* the language of the loop iteration document d is in
lang_of(d) == target_langs[lang_idx[d]]

\* the locals of translate_file when `for &lang in target_langs` reaches its
\* i-th iteration with `tr` as translations: the fetch tasks are pushed, and
\* with nothing to await the loop runs on into the second loop
cycle_from_first_only(i, flat, tr) ==
    IF i > 1 \/ unique_texts(flat) = {}
    THEN [pc |-> "write", lang_idx |-> 1, futures |-> EmptyMap,
          text_map |-> EmptyMap, translations |-> tr]
    ELSE [pc |-> "fetch", lang_idx |-> i,
          futures |-> [t \in unique_texts(flat) |-> "waiting"],
          text_map |-> EmptyMap, translations |-> tr]

RECURSIVE cycle_from(_, _, _)
cycle_from(i, flat, tr) ==
    IF i > Len(target_langs)
    THEN [pc |-> "write", lang_idx |-> 1, futures |-> EmptyMap,
          text_map |-> EmptyMap, translations |-> tr]
    ELSE IF unique_texts(flat) = {}
    THEN cycle_from(i + 1, flat, MapInsert(tr, target_langs[i], EmptyMap))
    ELSE [pc |-> "fetch", lang_idx |-> i,
          futures |-> [t \in unique_texts(flat) |-> "waiting"],
          text_map |-> EmptyMap, translations |-> tr]

\* the locals of document d become those of `loc`
SetLocals(d, loc) ==
    /\ pc' = [pc EXCEPT ![d] = loc.pc]
    /\ lang_idx' = [lang_idx EXCEPT ![d] = loc.lang_idx]
    /\ futures' = [futures EXCEPT ![d] = loc.futures]
    /\ text_map' = [text_map EXCEPT ![d] = loc.text_map]
    /\ translations' = [translations EXCEPT ![d] = loc.translations]

\* translate_file returns Err and main reports it
ReturnErr(d, call) ==
    /\ pc' = [pc EXCEPT ![d] = "failed"]
    /\ stderr' = stderr \cup {<<d, call>>}

config == <<concurrency, files, run, settled, rt>>
history == <<calls, answers, outputs, writes, all_failed>>

\* fs::read_to_string or serde_json::from_str fails, and main unwraps it
ReadFails_aborting(d) ==
    /\ ~crashed
    /\ pc[d] = "start"
    /\ ~files[d].readable
    /\ crashed' = TRUE
    /\ UNCHANGED <<config, history, semaphore, pc, flat_map, lang_idx, futures,
                   text_map, translations, fs, stderr, finished, memo>>

\* fs::read_to_string or serde_json::from_str fails
ReadFails(d) ==
    /\ ~crashed
    /\ pc[d] = "start"
    /\ ~files[d].readable
    /\ ReturnErr(d, "read_to_string")
    /\ UNCHANGED <<config, history, semaphore, flat_map, lang_idx, futures,
                   text_map, translations, fs, crashed, finished, memo>>

\* the document is read, parsed and flattened, and the first cycle starts
ReadFile(d) ==
    /\ ~crashed
    /\ pc[d] = "start"
    /\ files[d].readable
    /\ LET flat == flatten_json(files[d].json, <<>>, EmptyMap)
       IN  /\ flat_map' = [flat_map EXCEPT ![d] = flat]
           /\ SetLocals(d, cycle_from(1, flat, EmptyMap))
    /\ UNCHANGED <<config, history, semaphore, fs, stderr, crashed, finished,
                   memo>>

\* the fetch tasks of a cycle that hold a permit
in_flight_of(fut) == {t \in DOMAIN fut : fut[t] \in {"sending", "2xx", "non2xx"}}

\* sem.acquire_owned() may return
can_acquire_always(permits) == TRUE

can_acquire(permits) == permits > 0

\* a fetch task gets its permit and sends the request
Acquire(d, t) ==
    /\ ~crashed
    /\ pc[d] = "fetch"
    /\ t \in DOMAIN futures[d]
    /\ futures[d][t] = "waiting"
    /\ can_acquire(semaphore)
    /\ semaphore' = semaphore - 1
    /\ futures' = [futures EXCEPT ![d][t] = "sending"]
    /\ LET call == <<lang_of(d), t>>
           made == IF call \in DOMAIN calls[d] THEN calls[d][call] ELSE 0
       IN  calls' = [calls EXCEPT ![d] = MapInsert(@, call, made + 1)]
    /\ UNCHANGED <<config, answers, outputs, writes, all_failed, pc, flat_map,
                   lang_idx, text_map, translations, fs, stderr, crashed,
                   finished, memo>>

\* the permits after a task's _permit is dropped
release_never(permits) == permits

release(permits) == permits + 1

\* the text_map after `text_map.insert(orig, trans)`
drain_latest_only(map, orig, trans) == MapInsert(EmptyMap, orig, trans)

drain(map, orig, trans) == MapInsert(map, orig, trans)

\* futures.next() gives None: no task of the cycle is left
cycle_over_at_first(fut) == \E u \in DOMAIN fut : fut[u] = "done"

cycle_over(fut) == \A u \in DOMAIN fut : fut[u] = "done"

\* a fetch task of d returns (t, translated): its permit is dropped, the
\* while loop inserts the pair, and after the last task the cycle ends
Complete(d, t, translated, answer) ==
    /\ semaphore' = release(semaphore)
    /\ LET tm == drain(text_map[d], t, translated)
           fut == [futures[d] EXCEPT ![t] = "done"]
       IN  IF cycle_over(fut)
           THEN SetLocals(d, cycle_from(lang_idx[d] + 1, flat_map[d],
                                 MapInsert(translations[d], lang_of(d), tm)))
           ELSE SetLocals(d, [pc |-> "fetch", lang_idx |-> lang_idx[d],
                              futures |-> fut, text_map |-> tm,
                              translations |-> translations[d]])
    /\ answers' = [answers EXCEPT ![d] = MapInsert(@, <<lang_of(d), t>>, answer)]
    /\ memo' = IF memo[lang_of(d)][t] = "unset"
               THEN [memo EXCEPT ![lang_of(d)][t] =
                        IF answer = NoTranslation THEN "fallback" ELSE "translated"]
               ELSE memo

\* request.send() fails, and the task asks for a permit and calls again
SendFails_retrying(d, t) ==
    /\ ~crashed
    /\ pc[d] = "fetch"
    /\ t \in DOMAIN futures[d]
    /\ futures[d][t] = "sending"
    /\ semaphore' = release(semaphore)
    /\ futures' = [futures EXCEPT ![d][t] = "waiting"]
    /\ UNCHANGED <<config, history, pc, flat_map, lang_idx, text_map,
                   translations, fs, stderr, crashed, finished, memo>>

\* request.send() fails, and the error leaves translate_file
SendFails_aborting(d, t) ==
    /\ ~crashed
    /\ pc[d] = "fetch"
    /\ t \in DOMAIN futures[d]
    /\ futures[d][t] = "sending"
    /\ semaphore' = semaphore + Cardinality(in_flight_of(futures[d]))
    /\ futures' = [futures EXCEPT ![d] = EmptyMap]
    /\ ReturnErr(d, "send")
    /\ UNCHANGED <<config, history, flat_map, lang_idx, text_map, translations,
                   fs, crashed, finished, memo>>

\* request.send() fails: fetch_translation returns Err
SendFails(d, t) ==
    /\ ~crashed
    /\ pc[d] = "fetch"
    /\ t \in DOMAIN futures[d]
    /\ futures[d][t] = "sending"
    /\ memo[lang_of(d)][t] # "translated"
    /\ Complete(d, t, t, NoTranslation)
    /\ UNCHANGED <<config, calls, outputs, writes, all_failed, flat_map, fs,
                   stderr, crashed, finished>>

\* request.send() returns a response, of any status
SendReturns(d, t, status) ==
    /\ ~crashed
    /\ pc[d] = "fetch"
    /\ t \in DOMAIN futures[d]
    /\ futures[d][t] = "sending"
    /\ futures' = [futures EXCEPT ![d][t] = status]
    /\ UNCHANGED <<config, history, semaphore, pc, flat_map, lang_idx,
                   text_map, translations, fs, stderr, crashed, finished, memo>>

\* the result of fetch_translation once the body is there
translated_text_or_default(text, lang, body) ==
    IF body = "text" THEN Dictionary[lang][text] ELSE ""

translated_text(text, lang, body) ==
    IF body = "text" THEN Dictionary[lang][text] ELSE text

\* res.json() returns: Err for a malformed body, else the body, whose
\* translatedText is a string ("text") or not ("no_field")
BodyReturns(d, t, body) ==
    /\ ~crashed
    /\ pc[d] = "fetch"
    /\ t \in DOMAIN futures[d]
    /\ futures[d][t] \in {"2xx", "non2xx"}
    /\ memo[lang_of(d)][t] = "translated" => body = "text"
    /\ memo[lang_of(d)][t] = "fallback" => body # "text"
    /\ Complete(d, t, translated_text(t, lang_of(d), body),
                IF body = "text" THEN Dictionary[lang_of(d)][t] ELSE NoTranslation)
    /\ all_failed' = (all_failed /\ body # "text")
    /\ UNCHANGED <<config, calls, outputs, writes, flat_map, fs, stderr,
                   crashed, finished>>

\* translations[lang].get(v).unwrap_or(v)
lookup_source_only(tr, v) == v

lookup(tr, v) == IF v \in DOMAIN tr THEN tr[v] ELSE v

\* flat_translated of the second loop, for language lang
flat_translated(d, lang) ==
    [k \in DOMAIN flat_map[d] |-> lookup(translations[d][lang], flat_map[d][k])]

reconstructed(d) == unflatten_json(flat_translated(d, lang_of(d)))

new_content(d) == to_string_pretty(reconstructed(d))

\* whether the output file has to be written
must_write_always(existing, candidate) == TRUE

must_write_if_missing(existing, candidate) == existing = NoContent

must_write(existing, candidate) == existing # candidate

\* the second loop goes on to the next language, or translate_file returns Ok
Advance(d) ==
    /\ outputs' = [outputs EXCEPT ![d] = MapInsert(@, lang_of(d), reconstructed(d))]
    /\ IF lang_idx[d] = Len(target_langs)
       THEN /\ pc' = [pc EXCEPT ![d] = "done"]
            /\ UNCHANGED lang_idx
       ELSE /\ lang_idx' = [lang_idx EXCEPT ![d] = @ + 1]
            /\ UNCHANGED pc

\* unflatten_json panics on a leaf/ancestor collision; the panic unwinds
\* through translate_file, join_all and main
RebuildPanics(d) ==
    /\ ~crashed
    /\ pc[d] = "write"
    /\ reconstructed(d) = PANIC
    /\ crashed' = TRUE
    /\ UNCHANGED <<config, history, semaphore, pc, flat_map, lang_idx, futures,
                   text_map, translations, fs, stderr, finished, memo>>

\* fs::create_dir_all fails
CreateDirFails(d) ==
    /\ ~crashed
    /\ pc[d] = "write"
    /\ reconstructed(d) # PANIC
    /\ ReturnErr(d, "create_dir_all")
    /\ UNCHANGED <<config, history, semaphore, flat_map, lang_idx, futures,
                   text_map, translations, fs, crashed, finished, memo>>

\* the content differs and fs::write fails
WriteFails(d) ==
    /\ ~crashed
    /\ pc[d] = "write"
    /\ reconstructed(d) # PANIC
    /\ must_write(fs[d][lang_of(d)], new_content(d))
    /\ ReturnErr(d, "write")
    /\ UNCHANGED <<config, history, semaphore, flat_map, lang_idx, futures,
                   text_map, translations, fs, crashed, finished, memo>>

\* the content differs and is written
WriteFile(d) ==
    /\ ~crashed
    /\ pc[d] = "write"
    /\ reconstructed(d) # PANIC
    /\ must_write(fs[d][lang_of(d)], new_content(d))
    /\ fs' = [fs EXCEPT ![d][lang_of(d)] = new_content(d)]
    /\ writes' = writes \cup {<<d, lang_of(d)>>}
    /\ Advance(d)
    /\ UNCHANGED <<config, calls, answers, all_failed, semaphore, flat_map,
                   futures, text_map, translations, stderr, crashed, finished,
                   memo>>

\* the content is the same: no write
KeepFile(d) ==
    /\ ~crashed
    /\ pc[d] = "write"
    /\ reconstructed(d) # PANIC
    /\ ~must_write(fs[d][lang_of(d)], new_content(d))
    /\ Advance(d)
    /\ UNCHANGED <<config, calls, answers, all_failed, writes, semaphore,
                   flat_map, futures, text_map, translations, fs, stderr,
                   crashed, finished, memo>>

(***************************************************************************)
(* main                                                                    *)
(***************************************************************************)

\* join_all is over: every document task has returned
all_joined == \A d \in Files : pc[d] \in {"done", "failed"}

\* main prints its last line and returns Ok
MainReturns ==
    /\ ~crashed
    /\ ~finished
    /\ all_joined
    /\ finished' = TRUE
    /\ UNCHANGED <<config, history, semaphore, pc, flat_map, lang_idx, futures,
                   text_map, translations, fs, stderr, crashed, memo>>

\* the program is started again over the same documents
Rerun ==
    /\ run = 1
    /\ finished \/ crashed
    /\ UNCHANGED <<concurrency, files, fs, memo, rt>>
    /\ run' = 2
    /\ settled' = {o \in Files \X Langs : o[2] \in DOMAIN outputs[o[1]]}
    /\ semaphore' = concurrency
    /\ pc' = [d \in Files |-> "start"]
    /\ flat_map' = [d \in Files |-> EmptyMap]
    /\ lang_idx' = [d \in Files |-> 1]
    /\ futures' = [d \in Files |-> EmptyMap]
    /\ text_map' = [d \in Files |-> EmptyMap]
    /\ translations' = [d \in Files |-> EmptyMap]
    /\ stderr' = {}
    /\ crashed' = FALSE
    /\ finished' = FALSE
    /\ calls' = [d \in Files |-> EmptyMap]
    /\ answers' = [d \in Files |-> EmptyMap]
    /\ outputs' = [d \in Files |-> EmptyMap]
    /\ writes' = {}
    /\ all_failed' = TRUE

Step ==
    \/ \E d \in Files : ReadFails(d)
    \/ \E d \in Files : ReadFile(d)
    \/ \E d \in Files, t \in Texts : Acquire(d, t)
    \/ \E d \in Files, t \in Texts : SendFails(d, t)
    \/ \E d \in Files, t \in Texts, status \in {"2xx", "non2xx"} :
           SendReturns(d, t, status)
    \/ \E d \in Files, t \in Texts, body \in {"malformed", "no_field", "text"} :
           BodyReturns(d, t, body)
    \/ \E d \in Files : RebuildPanics(d)
    \/ \E d \in Files : CreateDirFails(d)
    \/ \E d \in Files : WriteFails(d)
    \/ \E d \in Files : WriteFile(d)
    \/ \E d \in Files : KeepFile(d)
    \/ MainReturns

Next == Step

Spec == Init /\ [][Next]_vars

(***************************************************************************)
(* The run under the scheduling of the runtime: while some task can go on, *)
(* a backend call or a file system call can return or a permit can be      *)
(* handed out, one of these happens                                        *)
(***************************************************************************)

Fairness == WF_vars(Next)

\* the inputs of the fair runs: documents of one or two strings, with and
\* without a collision, or unreadable
InputsFair ==
    {[d \in Files |-> IF d = "home.json" THEN home ELSE menu] :
        home \in {Collision, Dotted, Unreadable}, menu \in {Dotted, Unreadable}}

InitFair ==
    /\ concurrency \in 1..MaxConcurrency
    /\ files \in InputsFair
    /\ StartOfRun
    /\ \E seeded \in BOOLEAN :
           fs = [d \in Files |-> [l \in Langs |->
                    IF seeded THEN SourceCopy(files[d]) ELSE NoContent]]
    /\ run = 1
    /\ memo = [l \in Langs |-> [t \in Texts |-> "any"]]
    /\ settled = {}
    /\ rt = [stage |-> "off"]

SpecFair == InitFair /\ [][Next]_vars /\ Fairness

(***************************************************************************)
(* Two runs in a row, against a backend that answers the same for the      *)
(* same (text, language)                                                   *)
(***************************************************************************)

InitRerun ==
    /\ concurrency = MaxConcurrency
    /\ files \in Inputs
    /\ StartOfRun
    /\ fs = [d \in Files |-> [l \in Langs |-> NoContent]]
    /\ run = 1
    /\ memo = [l \in Langs |-> [t \in Texts |-> "unset"]]
    /\ settled = {}
    /\ rt = [stage |-> "off"]

NextRerun == Step \/ Rerun

SpecRerun == InitRerun /\ [][NextRerun]_vars

(***************************************************************************)
(* flatten_json and unflatten_json on their own, over bounded inputs       *)
(***************************************************************************)

\* the longest flat key
MaxKeyLen == 3

\* the most entries of a flat mapping
MaxEntries == 2

\* the characters of the keys of the round trips
KeyChars == {".", "a", "b"}

KeysUpTo(n) == UNION {[1..i -> KeyChars] : i \in 0..n}

LeafTexts == {"x", "y"}

\* the flat mappings of at most n entries
RECURSIVE FlatMapsUpTo(_)
FlatMapsUpTo(n) ==
    IF n = 0 THEN {EmptyMap}
    ELSE {EmptyMap} \cup {MapInsert(m, k, v) :
             m \in FlatMapsUpTo(n - 1), k \in KeysUpTo(MaxKeyLen), v \in LeafTexts}

\* the keys of the objects of the trees: "", ".", "a", "b"
TreeKeys == KeysUpTo(1)

\* the objects of at most two entries with values in V
ObjectsOver(V) ==
    {ValueObject(EmptyMap)}
        \cup {ValueObject(MapInsert(MapInsert(EmptyMap, k1, v1), k2, v2)) :
                 k1 \in TreeKeys, k2 \in TreeKeys, v1 \in V, v2 \in V}

Leaves == {ValueString(v) : v \in LeafTexts} \cup {ValueNumber}

\* the trees of the documents: objects nested at most two deep
Trees == ObjectsOver(Leaves \cup ObjectsOver(Leaves))

InitRoundTrip ==
    /\ concurrency = 1
    /\ files = [d \in Files |-> Unreadable]
    /\ StartOfRun
    /\ fs = [d \in Files |-> [l \in Langs |-> NoContent]]
    /\ run = 2
    /\ memo = [l \in Langs |-> [t \in Texts |-> "any"]]
    /\ settled = {}
    /\ rt \in {[stage |-> "flat", m |-> m] : m \in FlatMapsUpTo(MaxEntries)}
                \cup {[stage |-> "tree", t |-> t] : t \in Trees}

pipeline == <<concurrency, files, semaphore, pc, flat_map, lang_idx, futures,
              text_map, translations, fs, stderr, crashed, finished, run, memo,
              calls, answers, outputs, writes, all_failed, settled>>

\* unflatten_json(m)
Build ==
    /\ rt.stage = "flat"
    /\ rt' = [stage |-> "built", m |-> rt.m, tree |-> unflatten_json(rt.m)]
    /\ UNCHANGED pipeline

\* flatten_json(unflatten_json(m))
Reflatten ==
    /\ rt.stage = "built"
    /\ rt.tree # PANIC
    /\ rt' = [stage |-> "reflattened", m |-> rt.m,
              out |-> flatten_json(rt.tree, <<>>, EmptyMap)]
    /\ UNCHANGED pipeline

\* flatten_json(t)
FlattenTree ==
    /\ rt.stage = "tree"
    /\ rt' = [stage |-> "flattened", t |-> rt.t,
              flat |-> flatten_json(rt.t, <<>>, EmptyMap)]
    /\ UNCHANGED pipeline

\* unflatten_json(flatten_json(t))
Rebuild ==
    /\ rt.stage = "flattened"
    /\ rt' = [stage |-> "rebuilt", t |-> rt.t, out |-> unflatten_json(rt.flat)]
    /\ UNCHANGED pipeline

NextRoundTrip == Build \/ Reflatten \/ FlattenTree \/ Rebuild

SpecRoundTrip == InitRoundTrip /\ [][NextRoundTrip]_vars

(***************************************************************************)
(* Properties of the run                                                   *)
(***************************************************************************)

\* the fetch tasks of d that hold a permit, their backend call in flight
in_flight(d) ==
    {t \in DOMAIN futures[d] : futures[d][t] \in {"sending", "2xx", "non2xx"}}

total_in_flight ==
    Cardinality({o \in Files \X Texts : o[2] \in in_flight(o[1])})

\* C1: at every moment the backend calls in flight, summed over all
\* documents and languages, are at most the pool size N
C1_ConcurrencyBound == total_in_flight <= concurrency

\* the pool is exhausted by calls of two different documents while a third
\* task waits for a permit
C1_Witness ==
    /\ total_in_flight = concurrency
    /\ \A d \in Files : in_flight(d) # {}
    /\ \E d \in Files : \E t \in DOMAIN futures[d] : futures[d][t] = "waiting"

\* C2: when the rebuilding of the tree of (d, l) starts, every fetch task of
\* (d, l) has finished, none is in flight, and the cache of (d, l) has one
\* entry for each distinct source string of d, a translation or the
\* fallback, and no other entry
C2_Barrier ==
    \A d \in Files :
        pc[d] = "write" =>
            LET l == lang_of(d)
                strings == unique_texts(flat_map[d])
            IN  /\ in_flight(d) = {}
                /\ \A t \in strings :
                       /\ <<l, t>> \in DOMAIN calls[d]
                       /\ <<l, t>> \in DOMAIN answers[d]
                /\ l \in DOMAIN translations[d]
                /\ DOMAIN translations[d][l] = strings
                /\ \A t \in strings :
                       translations[d][l][t] \in {t, Dictionary[l][t]}

\* the rebuilding for the second language of a document with two distinct
\* strings is about to start, one string translated and one fallen back
C2_Witness ==
    \E d \in Files :
        /\ pc[d] = "write"
        /\ lang_idx[d] = Len(target_langs)
        /\ LET tm == translations[d][lang_of(d)]
           IN  /\ \E t \in DOMAIN tm : tm[t] = t
               /\ \E t \in DOMAIN tm : tm[t] # t

\* C3: for every document and language the backend is called exactly once
\* for each distinct source string, however many keys carry it
C3_OneCallPerString ==
    \A d \in Files :
        /\ \A c \in DOMAIN calls[d] :
               /\ calls[d][c] = 1
               /\ c[2] \in unique_texts(flat_map[d])
        /\ pc[d] \in {"write", "done"} =>
               DOMAIN calls[d] = Langs \X unique_texts(flat_map[d])

\* the keys of a flat mapping that carry text t
keys_of(flat, t) == {k \in DOMAIN flat : flat[k] = t}

\* a document with a string at two keys has been through all its cycles,
\* with one call per language for that string
C3_Witness ==
    \E d \in Files :
        /\ pc[d] = "done"
        /\ \E t \in Texts :
               /\ Cardinality(keys_of(flat_map[d], t)) = 2
               /\ \A l \in Langs : calls[d][<<l, t>>] = 1

\* the leaves of a tree, each as <<path of keys, kind, text>>; an empty
\* object below the root and a non-string leaf count as leaves
RECURSIVE leaves_at(_, _)
leaves_at(value, path) ==
    CASE value.kind = "String" -> {<<path, "String", value.s>>}
      [] value.kind = "Object" ->
             IF DOMAIN value.m = {} /\ path # <<>>
             THEN {<<path, "Object", "">>}
             ELSE UNION {leaves_at(value.m[k], Append(path, k)) : k \in DOMAIN value.m}
      [] OTHER -> {<<path, value.kind, "">>}

\* what the backend gave for text t in language l of document d, or t
answer_or_source(d, l, t) ==
    IF <<l, t>> \in DOMAIN answers[d] /\ answers[d][<<l, t>>] # NoTranslation
    THEN answers[d][<<l, t>>]
    ELSE t

\* C4: a written output holds the serialized tree whose leaves are exactly
\* the flat keys of the source document, each with the backend's translation
\* of its source string, or with the source string when its fetch fell back
C4_OutputTree ==
    \A d \in Files : \A l \in DOMAIN outputs[d] :
        /\ fs[d][l] = to_string_pretty(outputs[d][l])
        /\ leaves_at(outputs[d][l], <<>>) =
               {<<split(k), "String", answer_or_source(d, l, flat_map[d][k])>> :
                    k \in DOMAIN flat_map[d]}

\* an output was written that has a translated value at two keys and the
\* source text at a third
C4_Witness ==
    \E d \in Files : \E l \in DOMAIN outputs[d] :
        /\ <<d, l>> \in writes
        /\ Cardinality(DOMAIN flat_map[d]) = 3
        /\ \E t \in unique_texts(flat_map[d]) :
               /\ answers[d][<<l, t>>] # NoTranslation
               /\ Cardinality(keys_of(flat_map[d], t)) = 2
        /\ \E t \in unique_texts(flat_map[d]) : answers[d][<<l, t>>] = NoTranslation

\* the tree rebuilt from the flattened document, all values unchanged
rebuilt_source(doc) == unflatten_json(flatten_json(doc.json, <<>>, EmptyMap))

\* a tree of string leaves and non-empty nested objects whose keys are
\* non-empty and have no '.'
RECURSIVE plain_tree(_, _)
plain_tree(value, root) ==
    CASE value.kind = "String" -> ~root
      [] value.kind = "Object" ->
             /\ root \/ DOMAIN value.m # {}
             /\ \A k \in DOMAIN value.m :
                    /\ k # <<>>
                    /\ \A i \in 1..Len(k) : k[i] # "."
                    /\ plain_tree(value.m[k], FALSE)
      [] OTHER -> FALSE

reported(d) == \E e \in stderr : e[1] = d

\* C6: a document that cannot be read or parsed is reported as failed and
\* never aborts the run; when the run ends every other document that met no
\* failure of its own has been processed to the end and has its outputs in
\* place
C6_ReadFailureIsolated ==
    /\ \A d \in Files :
           ~files[d].readable =>
               /\ pc[d] \in {"start", "failed"}
               /\ pc[d] = "failed" => <<d, "read_to_string">> \in stderr
    /\ crashed =>
           \E d \in Files :
               files[d].readable /\ pc[d] = "write" /\ reconstructed(d) = PANIC
    /\ finished =>
           \A d \in Files :
               files[d].readable /\ ~reported(d) =>
                   /\ pc[d] = "done"
                   /\ DOMAIN outputs[d] = Langs
                   /\ \A l \in Langs : fs[d][l] = to_string_pretty(outputs[d][l])

\* the run ended normally with one document reported unreadable and the
\* other one written for every language
C6_Witness ==
    /\ finished
    /\ \E d \in Files : ~files[d].readable /\ <<d, "read_to_string">> \in stderr
    /\ \E d \in Files :
           /\ files[d].readable
           /\ pc[d] = "done"
           /\ \A l \in Langs : <<d, l>> \in writes

\* a is a strict prefix of b
strict_prefix(a, b) == Len(a) < Len(b) /\ SubSeq(b, 1, Len(a)) = a

\* a key is a leaf and a strict dotted-path prefix of another key
has_collision(flat) ==
    \E k1 \in DOMAIN flat : \E k2 \in DOMAIN flat :
        strict_prefix(split(k1), split(k2))

\* C7: a leaf/ancestor collision met when rebuilding a document's tree is
\* reported as a failure of that document and does not abort the run
C7_ConflictReported ==
    /\ ~crashed
    /\ \A d \in Files :
           pc[d] \in {"done", "failed"} /\ has_collision(flat_map[d]) => reported(d)

\* C8: in a second run over the same input, against a backend that answers
\* the same for the same (text, language), no output that the first run
\* wrote or found up to date is written; so nothing is written at all when
\* the first run completed every output
C8_IdempotentWrite ==
    run = 2 =>
        /\ writes \cap settled = {}
        /\ settled = Files \X Langs => writes = {}

\* a second run has ended after a complete first run, both documents kept
\* as they were, with a translated text in them
C8_Witness ==
    /\ run = 2
    /\ finished
    /\ settled = Files \X Langs
    /\ writes = {}
    /\ \A d \in Files : pc[d] = "done" /\ DOMAIN outputs[d] = Langs
    /\ \E d \in Files : \E c \in DOMAIN answers[d] : answers[d][c] # NoTranslation

\* the fetch tasks that have not returned yet, over all documents
unfinished_tasks ==
    {o \in Files \X Texts :
        o[2] \in DOMAIN futures[o[1]] /\ futures[o[1]][o[2]] # "done"}

\* C11: in every state the free permits plus the fetch tasks holding a
\* permit are N, whether the calls so far succeeded or failed, and when no
\* fetch task is left unfinished all N permits are free
C11_PermitsConserved ==
    /\ semaphore + total_in_flight = concurrency
    /\ unfinished_tasks = {} => semaphore = concurrency

\* every fetch task of the run has returned, some after a translation and
\* some after a backend failure, and the pool is full again
C11_Witness ==
    /\ \A d \in Files : pc[d] \in {"write", "done"}
    /\ unfinished_tasks = {}
    /\ semaphore = concurrency
    /\ ~all_failed
    /\ \E d \in Files : \E c \in DOMAIN answers[d] : answers[d][c] = NoTranslation
    /\ \A d \in Files : DOMAIN calls[d] # {}

\* the fetch of call c = (language, text) of document d returns in this step
\* without a translation
fallback_step(d, c) ==
    /\ c \notin DOMAIN answers[d]
    /\ c \in DOMAIN answers'[d]
    /\ answers'[d][c] = NoTranslation

\* the step leaves the run, the cycle of d, its other fetch tasks and the
\* other documents as they were, and nothing is reported for d
cycle_goes_on(d, c) ==
    /\ ~crashed'
    /\ stderr' = stderr
    /\ pc'[d] \in {"fetch", "write"}
    /\ pc'[d] = "fetch" /\ lang_idx'[d] = lang_idx[d] =>
           \A u \in DOMAIN futures[d] \ {c[2]} : futures'[d][u] = futures[d][u]
    /\ \A e \in Files \ {d} :
           /\ pc'[e] = pc[e]
           /\ futures'[e] = futures[e]
           /\ text_map'[e] = text_map[e]
           /\ translations'[e] = translations[e]

\* every call that ended without a translation has the source text as result
fallback_recorded ==
    \A d \in Files : \A c \in DOMAIN answers[d] :
        answers[d][c] = NoTranslation =>
            IF c[1] \in DOMAIN translations[d]
            THEN translations[d][c[1]][c[2]] = c[2]
            ELSE c[2] \in DOMAIN text_map[d] /\ text_map[d][c[2]] = c[2]

\* a document that was read has left its fetch cycles only with every
\* distinct string answered for every language
cycles_completed ==
    \A d \in Files :
        files[d].readable /\ pc[d] \in {"write", "done", "failed"} =>
            DOMAIN answers[d] = Langs \X unique_texts(flat_map[d])

\* C12: a backend call that ends with a transport error, a malformed body or
\* a body without a string translatedText gives the source text as the
\* result of its string, and its return aborts nothing: the other fetch
\* tasks of the cycle, the remaining languages and the other documents go
\* on, and every document leaves its fetch cycles with all calls answered
C12_FallbackContinues ==
    /\ [](fallback_recorded /\ cycles_completed)
    /\ [][\A d \in Files : \A c \in Langs \X Texts :
              fallback_step(d, c) => cycle_goes_on(d, c)]_vars

\* the run is over: the first call of a document's first language fell
\* back, its other string and its second language were translated, and the
\* other document was processed to the end
C12_Witness ==
    /\ finished
    /\ \A d \in Files : pc[d] = "done" /\ DOMAIN outputs[d] = Langs
    /\ \E d \in Files : \E t \in Texts : \E u \in Texts :
           /\ <<target_langs[1], t>> \in DOMAIN answers[d]
           /\ <<target_langs[1], u>> \in DOMAIN answers[d]
           /\ answers[d][<<target_langs[1], t>>] = NoTranslation
           /\ translations[d][target_langs[1]][t] = t
           /\ answers[d][<<target_langs[1], u>>] # NoTranslation
           /\ \A l \in Langs \ {target_langs[1]} :
                  answers[d][<<l, t>>] # NoTranslation

\* the call for text t of document d was answered with a non-2xx response
\* and its fetch task returns in this step
non2xx_returns(d, t) ==
    /\ t \in DOMAIN futures[d]
    /\ futures[d][t] = "non2xx"
    /\ <<lang_of(d), t>> \notin DOMAIN answers[d]
    /\ <<lang_of(d), t>> \in DOMAIN answers'[d]

\* the result the step records for text t in language l of document d
recorded_next(d, l, t) ==
    IF l \in DOMAIN translations'[d]
    THEN translations'[d][l][t]
    ELSE text_map'[d][t]

\* C13: a backend call answered with a non-2xx response is a backend call
\* failure whatever its body holds: the result recorded for its string is
\* the source text
C13_Non2xxFallsBack ==
    [][\A d \in Files : \A t \in Texts :
          non2xx_returns(d, t) => recorded_next(d, lang_of(d), t) = t]_vars

\* the leaves of a tree that are neither strings nor objects, as
\* <<path of keys, kind>>
RECURSIVE other_leaves(_, _)
other_leaves(value, path) ==
    CASE value.kind = "String" -> {}
      [] value.kind = "Object" ->
             UNION {other_leaves(value.m[k], Append(path, k)) : k \in DOMAIN value.m}
      [] OTHER -> {<<path, value.kind>>}

\* the tree without its leaves that are neither strings nor objects
RECURSIVE without_other_leaves(_)
without_other_leaves(value) ==
    IF value.kind = "Object"
    THEN ValueObject([k \in {x \in DOMAIN value.m :
                                  value.m[x].kind \in {"Object", "String"}} |->
                         without_other_leaves(value.m[k])])
    ELSE value

\* the texts of the string leaves of a tree
RECURSIVE string_leaves(_)
string_leaves(value) ==
    CASE value.kind = "String" -> {value.s}
      [] value.kind = "Object" ->
             UNION {string_leaves(value.m[k]) : k \in DOMAIN value.m}
      [] OTHER -> {}

\* C14: a leaf that is a number, a boolean, null or an array adds nothing to
\* the flat mapping, which is the one of the tree without such leaves; no
\* backend call is made for anything but the text of a string leaf; no
\* output tree has such a leaf; and a document that was read and parsed is
\* never reported for its reading
C14_NonStringLeavesDropped ==
    \A d \in Files :
        files[d].readable =>
            /\ <<d, "read_to_string">> \notin stderr
            /\ pc[d] # "start" =>
                   /\ flat_map[d] =
                          flatten_json(without_other_leaves(files[d].json),
                                       <<>>, EmptyMap)
                   /\ unique_texts(flat_map[d]) = string_leaves(files[d].json)
            /\ \A c \in DOMAIN calls[d] : c[2] \in string_leaves(files[d].json)
            /\ \A l \in DOMAIN outputs[d] :
                   /\ other_leaves(outputs[d][l], <<>>) = {}
                   /\ string_leaves(outputs[d][l]) =
                          {answer_or_source(d, l, t) : t \in string_leaves(files[d].json)}

\* a document with a number, an array holding a string, a null and a boolean
\* was processed to the end and written for every language
C14_Witness ==
    \E d \in Files :
        /\ {o[2] : o \in other_leaves(files[d].json, <<>>)}
               = {"Number", "Array", "Null", "Bool"}
        /\ pc[d] = "done"
        /\ DOMAIN calls[d] = Langs \X unique_texts(flat_map[d])
        /\ \A l \in Langs : <<d, l>> \in writes

\* fetch task t of document d is waiting for a permit
waits_for_permit(d, t) == t \in DOMAIN futures[d] /\ futures[d][t] = "waiting"

\* C15: if every backend call returns, the run completes, with every
\* document either completed or reported as failed, and no fetch task
\* waits for a permit forever
C15_Termination ==
    /\ <>(finished /\ \A d \in Files : pc[d] = "done" \/ reported(d))
    /\ \A d \in Files : \A t \in Texts :
           waits_for_permit(d, t) ~> ~waits_for_permit(d, t)

\* main reported that create_dir_all or fs::write failed for document d
write_failed(d) ==
    <<d, "create_dir_all">> \in stderr \/ <<d, "write">> \in stderr

\* C16: a failure to create the directories or to write the file of one
\* (document, language) is reported and is fatal for that output only: when
\* the run ends, the outputs of the document for its other languages and
\* the outputs of the other documents are in place
C16_WriteFailureIsolated ==
    /\ \A d \in Files :
           files[d].readable /\ pc[d] = "failed" => write_failed(d)
    /\ finished =>
           \A d \in Files :
               files[d].readable =>
                   \A l \in Langs :
                       ~(write_failed(d) /\ l = lang_of(d)) =>
                           /\ l \in DOMAIN outputs[d]
                           /\ fs[d][l] = to_string_pretty(outputs[d][l])

\* the program wrote a line about document d that is not main's report of
\* a failed read, create_dir_all or write
warned(d) ==
    \E e \in stderr :
        e[1] = d /\ e[2] \notin {"read_to_string", "create_dir_all", "write"}

\* C17: every backend call failure that leads to a fallback is logged as a
\* warning before the run ends
C17_FallbackLogged ==
    finished =>
        \A d \in Files : \A c \in DOMAIN answers[d] :
            answers[d][c] = NoTranslation => warned(d)

\* the second loop of document d gets past language l in this step
output_settled(d, l) == l \notin DOMAIN outputs[d] /\ l \in DOMAIN outputs'[d]

\* C18: when the loop gets past a (document, language), the file was
\* written in that step if and only if the content at the output path, a
\* missing file counting as empty, differed from the candidate content;
\* when they were equal the file is left as it was and nothing is written;
\* and no other step changes a file
C18_WriteIffDiffers ==
    [][\A d \in Files : \A l \in Langs :
          /\ output_settled(d, l) =>
                 LET candidate == to_string_pretty(outputs'[d][l])
                 IN  /\ <<d, l>> \in writes' <=> fs[d][l] # candidate
                     /\ fs'[d][l] = candidate
                     /\ fs[d][l] = candidate => fs'[d][l] = fs[d][l]
          /\ ~output_settled(d, l) =>
                 /\ fs'[d][l] = fs[d][l]
                 /\ <<d, l>> \in writes' <=> <<d, l>> \in writes]_vars

\* one document found its file for one language up to date and left it,
\* and wrote the file for another language, whose content differed
C18_Witness ==
    \E d \in Files : \E kept \in Langs : \E written \in Langs :
        /\ {kept, written} \subseteq DOMAIN outputs[d]
        /\ <<d, kept>> \notin writes
        /\ fs[d][kept] # NoContent
        /\ <<d, written>> \in writes
        /\ fs[d][written] # SourceCopy(files[d])

\* the content for language l computed from the tree of a document and
\* the backend's answers for it alone
content_of(doc, ans, l) ==
    LET flat == flatten_json(doc.json, <<>>, EmptyMap)
        text_of(t) == IF <<l, t>> \in DOMAIN ans /\ ans[<<l, t>>] # NoTranslation
                      THEN ans[<<l, t>>]
                      ELSE t
    IN  to_string_pretty(unflatten_json([k \in DOMAIN flat |-> text_of(flat[k])]))

\* in a serialized text, the keys of every object come in ascending order;
\* `open` holds the last key met in each object not yet closed
RECURSIVE keys_ascending(_, _)
keys_ascending(toks, open) ==
    IF toks = <<>> THEN TRUE
    ELSE LET t == Head(toks)
         IN  CASE t.tok = "punct" /\ t.p = "{" ->
                      keys_ascending(Tail(toks), Append(open, [seen |-> FALSE]))
               [] t.tok = "punct" /\ t.p = "}" ->
                      keys_ascending(Tail(toks), SubSeq(open, 1, Len(open) - 1))
               [] t.tok = "key" ->
                      /\ open[Len(open)].seen => KeyLess(open[Len(open)].k, t.k)
                      /\ keys_ascending(Tail(toks),
                             [open EXCEPT ![Len(open)] = [seen |-> TRUE, k |-> t.k]])
               [] OTHER -> keys_ascending(Tail(toks), open)

\* C19: the content at the path of every output the run has produced is
\* the one computed from the document's tree and the backend's answers
\* alone, in whatever order the fetch tasks completed and the document
\* tasks ran, and its keys are serialized in sorted order
C19_DeterministicContent ==
    \A d \in Files : \A l \in DOMAIN outputs[d] :
        /\ fs[d][l] = content_of(files[d], answers[d], l)
        /\ keys_ascending(fs[d][l], <<>>)

\* a document of two distinct strings under three keys, two of them
\* nested, was written for every language, with translations and a
\* fallback, while the other document still has a backend call in flight
C19_Witness ==
    \E d \in Files : \E e \in Files \ {d} :
        /\ \A l \in Langs : <<d, l>> \in writes
        /\ Cardinality(DOMAIN flat_map[d]) = 3
        /\ Cardinality(unique_texts(flat_map[d])) = 2
        /\ \E c \in DOMAIN answers[d] : answers[d][c] = NoTranslation
        /\ \E c \in DOMAIN answers[d] : answers[d][c] # NoTranslation
        /\ pc[e] = "fetch"
        /\ in_flight(e) # {}

\* a backend call of document d for the i-th language has started
cycle_started(d, i) ==
    \E t \in Texts : <<target_langs[i], t>> \in DOMAIN calls[d]

\* every backend call of document d for the i-th language has returned
cycle_finished(d, i) ==
    \A t \in unique_texts(flat_map[d]) :
        /\ <<target_langs[i], t>> \in DOMAIN answers[d]
        /\ target_langs[i] \in DOMAIN translations[d] \/ t \notin in_flight(d)

\* C20: within a document the fetch cycles run one after another in the
\* configured order: the calls in flight are those of one language, no
\* call of a language starts before every call of the language before it
\* has returned, and the second loop starts, and any output is written,
\* only when the cycles of all languages have finished
C20_CyclesInOrder ==
    \A d \in Files :
        /\ \A i \in 2..Len(target_langs) :
               cycle_started(d, i) => cycle_finished(d, i - 1)
        /\ \A t \in DOMAIN futures[d] :
               futures[d][t] # "waiting" => <<lang_of(d), t>> \in DOMAIN calls[d]
        /\ pc[d] = "fetch" =>
               \A i \in 1..Len(target_langs) :
                   /\ i < lang_idx[d] => cycle_finished(d, i)
                   /\ i > lang_idx[d] => ~cycle_started(d, i)
        /\ pc[d] = "write" \/ DOMAIN outputs[d] # {}
                \/ (\E l \in Langs : <<d, l>> \in writes) =>
               \A i \in 1..Len(target_langs) : cycle_finished(d, i)

\* a document of two strings is in the cycle of its second language, one
\* call in flight and one task waiting, every call of the first language
\* answered and nothing written yet
C20_Witness ==
    \E d \in Files :
        /\ pc[d] = "fetch"
        /\ lang_idx[d] = Len(target_langs)
        /\ in_flight(d) # {}
        /\ \E t \in DOMAIN futures[d] : futures[d][t] = "waiting"
        /\ cycle_finished(d, 1)
        /\ DOMAIN outputs[d] = {}
        /\ \A l \in Langs : <<d, l>> \notin writes

(***************************************************************************)
(* Properties of flatten_json and unflatten_json                           *)
(***************************************************************************)

\* no key is both a leaf and a strict dotted-path prefix of another key
prefix_consistent(m) == ~has_collision(m)

\* C9: for every flat mapping m in which no key is both a leaf and a strict
\* dotted-path prefix of another key, flatten_json(unflatten_json(m)) = m
C9_FlatRoundTrip ==
    /\ rt.stage = "built" /\ prefix_consistent(rt.m) => rt.tree # PANIC
    /\ rt.stage = "reflattened" /\ prefix_consistent(rt.m) => rt.out = rt.m

\* a tree of nested objects and string leaves only
RECURSIVE objects_and_strings(_)
objects_and_strings(value) ==
    CASE value.kind = "String" -> TRUE
      [] value.kind = "Object" ->
             \A k \in DOMAIN value.m : objects_and_strings(value.m[k])
      [] OTHER -> FALSE

\* C10: for every tree of nested objects and string leaves only,
\* unflatten_json(flatten_json(t)) = t
C10_TreeRoundTrip ==
    rt.stage = "rebuilt" /\ objects_and_strings(rt.t) => rt.out = rt.t

====
